---------------------------- MODULE Spec2Model ----------------------------
(***************************************************************************)
(* A model of src/src/Quotations.ts (talonjs): the plain-text pipeline     *)
(*   extractFromPlain = findDelimiter, preprocess, splitLines, slice,      *)
(*                      markMessageLines, processMarkedLines, join,        *)
(*                      postProcess.                                       *)
(*                                                                         *)
(* A string is a sequence of symbols.  "\n", "\r", ">", "<" and "x" are the *)
(* characters themselves; the other symbols stand for a text that the      *)
(* pattern library recognises and that the pipeline never splits:          *)
(*   "F"   ---------- Forwarded message ----------  (Forward)              *)
(*   "O"   On Mon, Jan 1, 2020, Bob wrote:          (OnDateSomebodyWrote,  *)
(*                                                   on one line)          *)
(*   "A"   On Mon, Jan 1, 2020,                     (first line of the     *)
(*   "B"   Bob Smith wrote:                          same phrase spread    *)
(*                                                   over two lines)       *)
(*   "L"   (http://example.com/a/long/link          (ParenthesisLink)      *)
(*   "H"   http://example.com/a                     (the target of a link  *)
(*                                                   "<http://..>")        *)
(*   "@@"  @@                                       (the sentinel that     *)
(*                                                   takes the place of a  *)
(*                                                   link bracket)         *)
(* "1" is the character itself where it is the text of a capture group.    *)
(* Array indices and match offsets are the 0-based ones of the source.     *)
(***************************************************************************)
EXTENDS Integers, Sequences, FiniteSets

VARIABLES pc, input, captured, globalFlag, messageBody, delimiter, lines, markers,
          index, result, pass, first

vars ==
  <<pc, input, captured, globalFlag, messageBody, delimiter, lines, markers, index,
    result, pass, first>>

\* The longest body the model draws, in lines.
MaxLines == 4

\* The longest body with links and mixed line endings the model draws, in lines.
MaxLinkLines == 3

NL == "\n"

CR == "\r"

\* TalonConstants.MaxLinesCount and TalonConstants.SplitterMaxLines (Constants.ts).
MaxLinesCount == 1000

SplitterMaxLines == 4

\* splitLines.length: the number of declared parameters of Utils.splitLines(str).
SplitLinesArity == 1

Min(a, b) == IF a < b THEN a ELSE b

Max(a, b) == IF a > b THEN a ELSE b

(***************************************************************************)
(* JavaScript values that are not arrays of lines: undefined, a number, a  *)
(* string.                                                                 *)
(***************************************************************************)
Undefined == [undef |-> TRUE]

Num(n) == [num |-> n]

Str(s) == [str |-> s]

IsNum(v) == "num" \in DOMAIN v

\* NaN.
NaN == [nan |-> TRUE]

\* White space, as trim and the conversion of a string to a number see it.
IsSpace(c) == c \in {"\n", "\r"}

\* ToNumber: a string of white space is 0, the numeral "1" is 1, any other
\* string of the model is no numeral; undefined is NaN.
ToNumber(v) ==
  IF IsNum(v) THEN v
  ELSE IF "str" \in DOMAIN v
       THEN (IF \A i \in 1..Len(v.str) : IsSpace(v.str[i]) THEN Num(0)
             ELSE IF v.str = <<"1">> THEN Num(1)
             ELSE NaN)
  ELSE NaN

\* The global isFinite(a): a is converted to a number first.
IsFinite(v) == IsNum(ToNumber(v))

\* ToIntegerOrInfinity as Array.prototype.slice applies it to an argument:
\* NaN (every marker string) is taken as 0.
ToInteger(v) == IF IsFinite(v) THEN ToNumber(v).num ELSE 0

\* Array.prototype.slice(start, end) with 0 <= start, end clamped to the length.
Slice(arr, start, end) ==
  LET e == Min(Max(end, 0), Len(arr))
      s == Min(Max(start, 0), Len(arr))
  IN IF s >= e THEN <<>> ELSE SubSeq(arr, s + 1, e)

\* arr[k] for a JavaScript value k: undefined when k is no index of arr.
ArrayGet(arr, k) ==
  IF IsNum(k) /\ k.num >= 0 /\ k.num < Len(arr) THEN Str(arr[k.num + 1]) ELSE Undefined

\* The number of characters of a string of symbols.
RECURSIVE StrLen(_)
StrLen(s) ==
  IF s = <<>> THEN 0
  ELSE (CASE Head(s) = "F" -> 39
          [] Head(s) = "O" -> 31
          [] Head(s) = "A" -> 20
          [] Head(s) = "B" -> 16
          [] Head(s) = "L" -> 31
          [] Head(s) = "H" -> 20
          [] Head(s) = "@@" -> 2
          [] OTHER -> 1) + StrLen(Tail(s))

(***************************************************************************)
(* Utils.ts                                                                *)
(***************************************************************************)
\* The (1-based) position of the first "\n" of str from position i on, 0 when
\* there is none.
FirstNewLine(str, i) ==
  IF \A k \in i..Len(str) : str[k] # NL THEN 0
  ELSE CHOOSE k \in i..Len(str) : str[k] = NL /\ \A j \in i..(k - 1) : str[j] # NL

\* findDelimiter: the first line break of the body, /\r?\n/, and "\n" for a
\* body of one line.
findDelimiter(body) ==
  LET i == FirstNewLine(body, 1)
  IN IF i > 1 /\ body[i - 1] = CR THEN <<CR, NL>> ELSE <<NL>>

\* splitLines: str.split(/\r?\n/).
RECURSIVE splitLines(_)
splitLines(str) ==
  LET i == FirstNewLine(str, 1)
  IN IF i = 0 THEN <<str>>
     ELSE <<SubSeq(str, 1, IF i > 1 /\ str[i - 1] = CR THEN i - 2 ELSE i - 1)>>
            \o splitLines(SubSeq(str, i + 1, Len(str)))

\* Array.prototype.join(delimiter).
RECURSIVE Join(_, _)
Join(ls, d) ==
  IF ls = <<>> THEN <<>>
  ELSE IF Len(ls) = 1 THEN ls[1]
  ELSE ls[1] \o d \o Join(Tail(ls), d)

\* String.prototype.trim.
RECURSIVE Trim(_)
Trim(s) ==
  IF s = <<>> THEN s
  ELSE IF IsSpace(Head(s)) THEN Trim(Tail(s))
  ELSE IF IsSpace(s[Len(s)]) THEN Trim(SubSeq(s, 1, Len(s) - 1))
  ELSE s

(***************************************************************************)
(* preprocess                                                              *)
(***************************************************************************)
\* The 0-based offset, in characters, of the symbol at (1-based) position i.
CharOffset(str, i) == StrLen(SubSeq(str, 1, i - 1))

\* str[n] === ">" for a 0-based offset n in characters: no symbol of more than
\* one character holds a ">".
CharIsQuote(str, n) == \E k \in 1..Len(str) : str[k] = ">" /\ CharOffset(str, k) = n

\* TalonRegexp.Link, /<(https?:\/\/[^>]*)>/g, matches at position i of str.
LinkAt(str, i) ==
  /\ i + 2 <= Len(str)
  /\ str[i] = "<"
  /\ str[i + 1] = "H"
  /\ \E k \in (i + 2)..Len(str) : str[k] = ">"

\* The position of the ">" that ends the match of TalonRegexp.Link at i.
LinkEnd(str, i) ==
  CHOOSE k \in (i + 2)..Len(str) : str[k] = ">" /\ \A j \in (i + 2)..(k - 1) : str[j] # ">"

\* str.substring(offset).indexOf("\n") (line 79) for the match at position i:
\* counted from the offset of the match, -1 when no line break follows.
NewLineIndex(str, i) ==
  IF FirstNewLine(str, i) = 0 THEN 0 - 1
  ELSE CharOffset(str, FirstNewLine(str, i)) - CharOffset(str, i)

\* The replace callback of lines 78-81 for the match from i to k.
NormalizeLink(str, i, k) ==
  IF CharIsQuote(str, NewLineIndex(str, i) + 1) THEN SubSeq(str, i, k)
  ELSE <<"@@">> \o SubSeq(str, i + 1, k - 1) \o <<"@@">>

\* messageBody.replace(TalonRegexp.Link, ...) (lines 78-81), from position i on:
\* every match, from left to right, the next search starting after the match.
RECURSIVE NormalizeLinks(_, _)
NormalizeLinks(str, i) ==
  IF i > Len(str) THEN <<>>
  ELSE IF LinkAt(str, i)
       THEN NormalizeLink(str, i, LinkEnd(str, i)) \o NormalizeLinks(str, LinkEnd(str, i) + 1)
  ELSE <<str[i]>> \o NormalizeLinks(str, i + 1)

\* TalonRegexp.OnDateSomebodyWrote matches at (1-based) position i of str.
OnDateSomebodyWroteAt(str, i) ==
  \/ str[i] = "O"
  \/ str[i] = "A" /\ i + 2 <= Len(str) /\ str[i + 1] = NL /\ str[i + 2] = "B"
  \/ /\ str[i] = "A" /\ i + 3 <= Len(str)
     /\ str[i + 1] = CR /\ str[i + 2] = NL /\ str[i + 3] = "B"

\* The (1-based) positions of str where TalonRegexp.OnDateSomebodyWrote matches.
OnDateSomebodyWroteMatches(str) ==
  {i \in 1..Len(str) : OnDateSomebodyWroteAt(str, i)}

\* The arguments after "match" that replace passes to the callback of line 88
\* for the match at position i: the capture groups (the whole phrase, and the
\* group whose text is "captured"), the offset of the match, the whole string.
CallbackArgs(str, i, cap) == <<Str(<<str[i]>>), cap, Num(i - 1), Str(str)>>

\* args.filter(a => isFinite(a))[0] (line 89).
FirstFinite(args) ==
  args[CHOOSE k \in 1..Len(args) :
         IsFinite(args[k]) /\ \A j \in 1..(k - 1) : ~IsFinite(args[j])]

\* offset > 0 && str[offset - 1] !== "\n" (line 92), for an offset that is the
\* offset of a match or addresses the first character of str.
PrecededByText(str, offset) ==
  LET n == ToNumber(offset).num
  IN n > 0 /\ (n - 1 >= Len(str) \/ str[n] # NL)

\* WrapSplitters with the delimiter put on both sides of the phrase.
WrapSplittersBothSides(str, i, d, cap) ==
  IF PrecededByText(str, FirstFinite(CallbackArgs(str, i, cap)))
  THEN d \o <<str[i]>> \o d
  ELSE <<str[i]>>

\* The replace callback of lines 88-95 for the match at position i: what takes
\* the place of the first symbol of the match.
WrapSplitters(str, i, d, cap) ==
  IF PrecededByText(str, FirstFinite(CallbackArgs(str, i, cap)))
  THEN d \o <<str[i]>>
  ELSE <<str[i]>>

\* messageBody.replace(TalonRegexp.OnDateSomebodyWrote, ...) (lines 88-95), from
\* position i on: the callback is called for every match when the pattern has
\* the g flag, and for the first match only when it has not.
RECURSIVE WrapMatches(_, _, _, _, _)
WrapMatches(str, i, d, cap, g) ==
  IF i > Len(str) THEN <<>>
  ELSE (IF /\ OnDateSomebodyWroteAt(str, i)
           /\ g \/ \A j \in OnDateSomebodyWroteMatches(str) : i <= j
        THEN WrapSplitters(str, i, d, cap)
        ELSE <<str[i]>>) \o WrapMatches(str, i + 1, d, cap, g)

\* Lines 75-98, for the plain-text content type.
preprocess(body, d, cap, g) == WrapMatches(NormalizeLinks(body, 1), 1, d, cap, g)

(***************************************************************************)
(* postProcess                                                             *)
(***************************************************************************)
\* TalonRegexp.NormalizedLink, /@@(https?:\/\/[^>@]*)@@/g, matches at position i.
NormalizedLinkAt(str, i) ==
  /\ i + 2 <= Len(str)
  /\ str[i] = "@@"
  /\ str[i + 1] = "H"
  /\ \E k \in (i + 2)..Len(str) :
       str[k] = "@@" /\ \A j \in (i + 2)..(k - 1) : str[j] \notin {">", "@@"}

\* The position of the sentinel that ends the match of TalonRegexp.NormalizedLink.
NormalizedLinkEnd(str, i) ==
  CHOOSE k \in (i + 2)..Len(str) :
    str[k] = "@@" /\ \A j \in (i + 2)..(k - 1) : str[j] # "@@"

\* messageBody.replace(TalonRegexp.NormalizedLink, "<$1>") (line 229), from
\* position i on.
RECURSIVE RestoreLinks(_, _)
RestoreLinks(str, i) ==
  IF i > Len(str) THEN <<>>
  ELSE IF NormalizedLinkAt(str, i)
       THEN <<"<">> \o SubSeq(str, i + 1, NormalizedLinkEnd(str, i) - 1) \o <<">">>
              \o RestoreLinks(str, NormalizedLinkEnd(str, i) + 1)
  ELSE <<str[i]>> \o RestoreLinks(str, i + 1)

\* Lines 228-230.
postProcess(body) == Trim(RestoreLinks(body, 1))

(***************************************************************************)
(* Regexp.ts, as far as the line classifier uses it                        *)
(***************************************************************************)
\* matchStart(line, TalonRegexp.QuotePattern): the line starts with ">".
QuotePatternAtStart(line) == Len(line) > 0 /\ line[1] = ">"

\* matchStart(line, TalonRegexp.Forward): the line is a forwarded-message header.
ForwardAtStart(line) == Len(line) = 1 /\ line[1] = "F"

\* line.match(TalonRegexp.ParenthesisLink): the line holds "(http://".
ParenthesisLink(line) == \E i \in 1..Len(line) : line[i] = "L"

\* matchStart(line, TalonRegexp.ParenthesisLink): the line starts with "(http://".
ParenthesisLinkAtStart(line) == Len(line) > 0 /\ line[1] = "L"

\* matchStart(src, TalonRegexp.OnDateSomebodyWrote): the text matched, or undefined.
OnDateSomebodyWroteStart(src) ==
  IF Len(src) >= 1 /\ src[1] = "O" THEN Str(<<"O">>)
  ELSE IF Len(src) >= 3 /\ src[1] = "A" /\ src[2] = NL /\ src[3] = "B"
       THEN Str(<<"A", NL, "B">>)
  ELSE Undefined

\* isSplitter: the first pattern of TalonRegexp.SplitterPatterns that matches at
\* the start of src gives the match; undefined when none does.
isSplitter(src) == OnDateSomebodyWroteStart(src)

(***************************************************************************)
(* markMessageLines: one iteration of the while loop of lines 118-149      *)
(***************************************************************************)
\* lines.slice(index, index + SplitterMaxLines).join("\n")
SplitterWindow(ls, i) == Join(Slice(ls, i, i + SplitterMaxLines), <<NL>>)

\* The markers array after the iteration at index i.
MarkLine(ls, mk, i) ==
  LET line == ls[i + 1]
      splitterMatch == isSplitter(SplitterWindow(ls, i))
  IN IF line = <<>> THEN [mk EXCEPT ![i + 1] = "e"]
     ELSE IF QuotePatternAtStart(line) THEN [mk EXCEPT ![i + 1] = "m"]
     ELSE IF ForwardAtStart(line) THEN [mk EXCEPT ![i + 1] = "f"]
     ELSE IF splitterMatch = Undefined THEN [mk EXCEPT ![i + 1] = "t"]
     ELSE LET splitterLines == splitLines(splitterMatch.str)
          IN [k \in 1..Len(mk) |->
                IF k - 1 >= i /\ k - 1 < i + Len(splitterLines) THEN "s" ELSE mk[k]]

\* Whether the iteration at index i takes the splitter branch (lines 138-145).
TakesSplitterBranch(ls, i) ==
  LET line == ls[i + 1]
  IN /\ line # <<>>
     /\ ~QuotePatternAtStart(line)
     /\ ~ForwardAtStart(line)
     /\ isSplitter(SplitterWindow(ls, i)) # Undefined

\* index after the iteration at i: "index += splitLines.length - 1" in the
\* splitter branch, then "index++".
NextIndex(ls, i) ==
  (IF TakesSplitterBranch(ls, i) THEN i + (SplitLinesArity - 1) ELSE i) + 1

\* markers.join(""): an element never assigned joins as the empty string.
RECURSIVE JoinMarkers(_)
JoinMarkers(mk) ==
  IF mk = <<>> THEN <<>>
  ELSE (IF Head(mk) = "" THEN <<>> ELSE <<Head(mk)>>) \o JoinMarkers(Tail(mk))

(***************************************************************************)
(* Regular expressions over the marker string.  Positions i, j, k of the   *)
(* helpers are 1-based; the "index" of a match is 0-based as in the source. *)
(***************************************************************************)
\* null: RegExp.prototype.exec and String.prototype.match without a match.
Null == [null |-> TRUE]

\* The first position from i on whose marker is not in S (Len + 1 when none):
\* where a greedy run of the class S that starts at i ends.
RunEnd(m, i, S) ==
  IF \A j \in i..Len(m) : m[j] \in S THEN Len(m) + 1
  ELSE CHOOSE j \in i..Len(m) : m[j] \notin S /\ \A k \in i..(j - 1) : m[k] \in S

\* The last position in lo..hi whose marker is in S.
LastIn(m, lo, hi, S) ==
  CHOOSE j \in lo..hi : m[j] \in S /\ \A k \in (j + 1)..hi : m[k] \notin S

\* The least element of a non-empty set of positions: the leftmost match.
Leftmost(P) == CHOOSE i \in P : \A j \in P : i <= j

\* match[n] of a match array: undefined past its last capture group.
ExecGroup(match, n) ==
  IF n + 1 <= Len(match.groups) THEN Str(match.groups[n + 1]) ELSE Undefined

\* String.prototype.indexOf: 0-based, -1 when needle does not occur.
IndexOf(hay, needle) ==
  LET P == {i \in 0..(Len(hay) - Len(needle)) :
              SubSeq(hay, i + 1, i + Len(needle)) = needle}
  IN IF P = {} THEN 0 - 1 ELSE Leftmost(P)

\* markers.indexOf("s") < 0
NoSplitterMarker(m) == IndexOf(m, <<"s">>) < 0

\* /(me*){3}/.exec(markers) finds a match.
ThreeQuoteRuns(m) ==
  \E i \in 1..Len(m) :
    /\ m[i] = "m"
    /\ LET j == RunEnd(m, i + 1, {"e"})
       IN /\ j <= Len(m) /\ m[j] = "m"
          /\ LET k == RunEnd(m, j + 1, {"e"}) IN k <= Len(m) /\ m[k] = "m"

\* markers.replace("m", "t"): a string pattern replaces the first occurrence.
ReplaceFirst(m, a, b) ==
  IF IndexOf(m, <<a>>) < 0 THEN m ELSE [m EXCEPT ![IndexOf(m, <<a>>) + 1] = b]

\* Lines 176-177: the value the statement computes.  It is not assigned, and a
\* string is immutable, so no later step reads it.
SpuriousMarkersReplaced(m) ==
  IF NoSplitterMarker(m) /\ ~ThreeQuoteRuns(m) THEN ReplaceFirst(m, "m", "t") ELSE m

\* LeadingForward with the pattern /f/ in place of /[te]*f/: only a header on
\* the first line counts.
LeadingForwardFirstLineOnly(m) == Len(m) >= 1 /\ m[1] = "f"

\* matchStart(markers, /[te]*f/) (line 179): a match that starts at offset 0.
LeadingForward(m) ==
  LET j == RunEnd(m, 1, {"t", "e"}) IN j <= Len(m) /\ m[j] = "f"

\* /(m)e*((?:t+e*)+)m/g.exec(markers) (line 186).  The literal is evaluated anew
\* at each test of the loop, so the search always starts at offset 0.
InlineReplyStarts(m) ==
  {i \in 1..Len(m) :
     /\ m[i] = "m"
     /\ LET j == RunEnd(m, i + 1, {"e"})
        IN /\ j <= Len(m) /\ m[j] = "t"
           /\ LET k == RunEnd(m, j, {"t", "e"}) IN k <= Len(m) /\ m[k] = "m"}

InlineReplyExec(m) ==
  IF InlineReplyStarts(m) = {} THEN Null
  ELSE LET i == Leftmost(InlineReplyStarts(m))
           j == RunEnd(m, i + 1, {"e"})
           k == RunEnd(m, j, {"t", "e"})
       IN [index  |-> i - 1,
           groups |-> <<SubSeq(m, i, k), <<"m">>, SubSeq(m, j, k - 1)>>]

\* markers.match("(se*)+((t|f)+e*)+") (line 197): the string is compiled to a
\* regular expression without anchors; groups 1, 2 and 3 hold their last
\* iteration.
TrailingQuoteStarts(m) ==
  {i \in 1..Len(m) :
     /\ m[i] = "s"
     /\ LET j == RunEnd(m, i, {"s", "e"}) IN j <= Len(m) /\ m[j] \in {"t", "f"}}

TrailingQuoteMatch(m) ==
  IF TrailingQuoteStarts(m) = {} THEN Null
  ELSE LET i == Leftmost(TrailingQuoteStarts(m))
           j == RunEnd(m, i, {"s", "e"})
           k == RunEnd(m, j, {"t", "f", "e"})
           p == CHOOSE q \in j..(k - 1) :
                  /\ m[q] \in {"t", "f"}
                  /\ q = j \/ m[q - 1] = "e"
                  /\ \A r \in (q + 1)..(k - 1) :
                        ~(m[r] \in {"t", "f"} /\ m[r - 1] = "e")
       IN [index  |-> i - 1,
           groups |-> <<SubSeq(m, i, k - 1),
                        SubSeq(m, LastIn(m, i, j - 1, {"s"}), j - 1),
                        SubSeq(m, p, k - 1),
                        <<m[LastIn(m, j, k - 1, {"t", "f"})]>> >>]

\* markers.match(TalonRegexp.Quotation), /((?:(?:se*)+|(?:me*){2,}).*me*)[te]*$/ :
\* a border (splitter lines, or two quote lines), anything, a last quote line
\* and its empty lines; only text and empty lines may follow to the end.
QuotationStarts(m) ==
  {i \in 1..Len(m) :
     /\ \E q \in 1..Len(m) : m[q] = "m"
     /\ LET last == LastIn(m, 1, Len(m), {"m"})
        IN /\ \A r \in (last + 1)..Len(m) : m[r] \in {"t", "e"}
           /\ \/ m[i] = "s" /\ last > i
              \/ /\ m[i] = "m"
                 /\ LET j == RunEnd(m, i + 1, {"e"})
                    IN j <= Len(m) /\ m[j] = "m" /\ last > j}

QuotationMatch(m) ==
  IF QuotationStarts(m) = {} THEN Null
  ELSE LET i == Leftmost(QuotationStarts(m))
           last == LastIn(m, 1, Len(m), {"m"})
           g == RunEnd(m, last + 1, {"e"})
       IN [index  |-> i - 1,
           groups |-> <<SubSeq(m, i, Len(m)), SubSeq(m, i, g - 1)>>]

\* markers.match(TalonRegexp.EmptyQuotation), /((?:(?:se*)+|(?:me*){2,}))e*/ :
\* the border alone.
EmptyQuotationStarts(m) ==
  {i \in 1..Len(m) :
     \/ m[i] = "s"
     \/ /\ m[i] = "m"
        /\ LET j == RunEnd(m, i + 1, {"e"}) IN j <= Len(m) /\ m[j] = "m"}

EmptyQuotationMatch(m) ==
  IF EmptyQuotationStarts(m) = {} THEN Null
  ELSE LET i == Leftmost(EmptyQuotationStarts(m))
           g == IF m[i] = "s" THEN RunEnd(m, i, {"s", "e"}) ELSE RunEnd(m, i, {"m", "e"})
           k == RunEnd(m, g, {"e"})
       IN [index  |-> i - 1,
           groups |-> <<SubSeq(m, i, k - 1), SubSeq(m, i, g - 1)>>]

(***************************************************************************)
(* processMarkedLines                                                      *)
(***************************************************************************)
\* The result object of lines 168-173.
InitialResult(ls) ==
  [lastMessageLines |-> ls, wereLinesDeleted |-> FALSE,
   firstDeletedLine |-> Num(0 - 1), lastDeletedLine |-> Num(0 - 1), end |-> "return"]

\* A call that does not return: end is "TypeError" (an uncaught exception) or
\* "loop" (the while loop of line 186 never ends).
NoReturn(ls, how) == [InitialResult(ls) EXCEPT !.end = how]

\* The inline-reply loop of lines 186-194, from a match to what the loop does:
\*   "TypeError"  a property of undefined is read (lines 189-190)
\*   "abort"      return result (line 193)
\*   "again"      the body ends and the loop condition is tested again
InlineReplyStep(ls, match) ==
  LET k == ExecGroup(match, 3)
      line == ArrayGet(ls, k)
  IN IF line = Undefined THEN "TypeError"
     ELSE IF ParenthesisLink(line.str) THEN "again"
     ELSE LET next == ArrayGet(ls, Num(ToInteger(k) + 1))
          IN IF next = Undefined THEN "TypeError"
             ELSE IF ParenthesisLinkAtStart(Trim(next.str)) THEN "again"
             ELSE "abort"

\* Lines 196-204: the trailing-quote cut.
TrailingQuoteCut(ls, quotation) ==
  [lastMessageLines |-> Slice(ls, 0, ToInteger(ExecGroup(quotation, 3))),
   wereLinesDeleted |-> TRUE,
   firstDeletedLine |-> ExecGroup(quotation, 3),
   lastDeletedLine  |-> Num(Len(ls)),
   end              |-> "return"]

\* KeepAround with the captured range kept and the rest dropped.
KeepInside(ls, firstGroupStart, firstGroupEnd) ==
  Slice(ls, firstGroupStart, firstGroupEnd)

\* The surviving lines of line 217.
KeepAround(ls, firstGroupStart, firstGroupEnd) ==
  Slice(ls, 0, firstGroupStart) \o Slice(ls, firstGroupEnd, Len(ls))

\* Lines 210-218: the bounded quotation block.
BoundedBlock(ls, quotation) ==
  LET firstGroupStart == quotation.index
                           + IndexOf(quotation.groups[1], quotation.groups[2])
      firstGroupEnd == firstGroupStart + Len(quotation.groups[2])
  IN [lastMessageLines |-> KeepAround(ls, firstGroupStart, firstGroupEnd),
      wereLinesDeleted |-> TRUE,
      firstDeletedLine |-> Num(firstGroupStart),
      lastDeletedLine  |-> Num(firstGroupEnd),
      end              |-> "return"]

\* Lines 206-221: what follows the trailing-quote test.
AfterTrailingQuote(ls, m) ==
  LET quotation == IF QuotationMatch(m) # Null THEN QuotationMatch(m)
                   ELSE EmptyQuotationMatch(m)
  IN IF quotation # Null THEN BoundedBlock(ls, quotation) ELSE InitialResult(ls)

\* Lines 196-221: what follows the inline-reply loop.
AfterInlineReply(ls, m) ==
  IF TrailingQuoteMatch(m) # Null THEN TrailingQuoteCut(ls, TrailingQuoteMatch(m))
  ELSE AfterTrailingQuote(ls, m)

\* Lines 162-222.  The loop condition evaluates the regular expression literal
\* anew, so a body that ends with "again" meets the same match at the next test
\* and the loop never ends.
processMarkedLines(ls, m) ==
  LET discarded == SpuriousMarkersReplaced(m)
  IN
  IF LeadingForward(m) THEN InitialResult(ls)
  ELSE IF InlineReplyExec(m) # Null
       THEN (CASE InlineReplyStep(ls, InlineReplyExec(m)) = "abort" -> InitialResult(ls)
               [] InlineReplyStep(ls, InlineReplyExec(m)) = "again" -> NoReturn(ls, "loop")
               [] OTHER -> NoReturn(ls, "TypeError"))
  ELSE AfterInlineReply(ls, m)

(***************************************************************************)
(* extractFromPlain as a state machine: pc is the statement about to run.  *)
(***************************************************************************)
\* The lines a body is drawn from.
LineKinds ==
  { <<>>, <<"x">>, <<">", "x">>, <<"F">>, <<"O">>, <<"x", "O">>, <<"L">>,
    <<"A">>, <<"B">> }

Bodies ==
  {Join(ls, <<NL>>) : ls \in UNION {[1..n -> LineKinds] : n \in 1..MaxLines}}

\* The lines a body with links is drawn from: "<http://example.com/a>" on a line
\* of its own, a quoted line that opens a link, a text line that closes one.
LinkLineKinds ==
  { <<>>, <<"x">>, <<">", "x">>, <<"F">>, <<"O">>, <<"x", "O">>,
    <<"<", "H", ">">>, <<">", "x", "<", "H">>, <<"x", ">">> }

\* The two line breaks.
LineBreaks == { <<NL>>, <<CR, NL>> }

\* ls[1] br[1] ls[2] br[2] .. ls[n]: the lines ls with the line break br[k]
\* after line k.
RECURSIVE JoinWith(_, _)
JoinWith(ls, br) ==
  IF Len(ls) = 1 THEN ls[1]
  ELSE ls[1] \o br[1] \o JoinWith(Tail(ls), Tail(br))

LinkBodies ==
  UNION {{JoinWith(ls, br) : ls \in [1..n -> LinkLineKinds],
                             br \in [1..(n - 1) -> LineBreaks]} : n \in 1..MaxLinkLines}

\* What a capture group of TalonRegexp.OnDateSomebodyWrote holds for a phrase:
\* nothing (undefined, or no such group), or the day of the month.
Captures == {Undefined, Str(<<"1">>)}

\* The state after the call of extractFromPlain on a body of the set B, for a
\* pattern TalonRegexp.OnDateSomebodyWrote with or without the g flag.
InitOn(B) ==
  /\ pc = "preprocess"
  /\ input \in B
  /\ captured \in Captures
  /\ globalFlag \in BOOLEAN
  /\ messageBody = input
  /\ delimiter = <<>>
  /\ lines = <<>>
  /\ markers = <<>>
  /\ index = 0
  /\ result = InitialResult(<<>>)
  /\ pass = 1
  /\ first = <<>>

Init == InitOn(Bodies)

InitLinks == InitOn(LinkBodies)

\* Lines 34-35.
Preprocess ==
  /\ pc = "preprocess"
  /\ delimiter' = findDelimiter(messageBody)
  /\ messageBody' = preprocess(messageBody, delimiter', captured, globalFlag)
  /\ pc' = "split"
  /\ UNCHANGED <<input, captured, globalFlag, lines, markers, index, result, pass, first>>

\* Line 38, and lines 114-117 of markMessageLines.
Split ==
  /\ pc = "split"
  /\ lines' = Slice(splitLines(messageBody), 0, MaxLinesCount)
  /\ markers' = [k \in 1..Len(lines') |-> ""]
  /\ index' = 0
  /\ pc' = "mark"
  /\ UNCHANGED <<input, captured, globalFlag, messageBody, delimiter, result, pass, first>>

\* One iteration of the loop of lines 118-149.
MarkStep ==
  /\ pc = "mark"
  /\ index < Len(lines)
  /\ markers' = MarkLine(lines, markers, index)
  /\ index' = NextIndex(lines, index)
  /\ UNCHANGED <<pc, input, captured, globalFlag, messageBody, delimiter, lines, result, pass, first>>

\* Line 151.
MarkReturn ==
  /\ pc = "mark"
  /\ index >= Len(lines)
  /\ markers' = JoinMarkers(markers)
  /\ pc' = "process"
  /\ UNCHANGED <<input, captured, globalFlag, messageBody, delimiter, lines, index, result, pass, first>>

\* Line 40.
Process ==
  /\ pc = "process"
  /\ result' = processMarkedLines(lines, markers)
  /\ pc' = IF result'.end = "return" THEN "join" ELSE result'.end
  /\ UNCHANGED <<input, captured, globalFlag, messageBody, delimiter, lines, markers, index, pass, first>>

\* Lines 43-47.
PostProcess ==
  /\ pc = "join"
  /\ messageBody' = postProcess(Join(result.lastMessageLines, delimiter))
  /\ pc' = "returned"
  /\ UNCHANGED <<input, captured, globalFlag, delimiter, lines, markers, index, result, pass, first>>

\* extractFromPlain called on its own result.
Again ==
  /\ pc = "returned"
  /\ pass = 1
  /\ first' = messageBody
  /\ pass' = 2
  /\ pc' = "preprocess"
  /\ delimiter' = <<>>
  /\ lines' = <<>>
  /\ markers' = <<>>
  /\ index' = 0
  /\ result' = InitialResult(<<>>)
  /\ UNCHANGED <<input, captured, globalFlag, messageBody>>

Next == Preprocess \/ Split \/ MarkStep \/ MarkReturn \/ Process \/ PostProcess

Spec == Init /\ [][Next]_vars

NextTwice == Next \/ Again

SpecTwice == Init /\ [][NextTwice]_vars

SpecLinks == InitLinks /\ [][Next]_vars

(***************************************************************************)
(* The properties                                                          *)
(***************************************************************************)
\* processMarkedLines has been called: lines, markers and result are final.
Processed == pc \in {"join", "TypeError", "loop", "returned"}

\* markMessageLines has returned: markers is the marker string.
Marked == pc \in {"process", "join", "TypeError", "loop", "returned"}

\* The marker string begins with text and empty markers, then a forward header.
LeadingForwardShape(m) ==
  \E j \in 1..Len(m) : m[j] = "f" /\ \A k \in 1..(j - 1) : m[k] \in {"t", "e"}

\* The first text line (0-based) of the inline-reply shape that starts at the
\* quote marker at position i.
ReplyTextLine(m, i) == RunEnd(m, i + 1, {"e"}) - 1

\* The text line of the occurrence at i, or the line after it, is link-shaped.
LinkShaped(ls, m, i) ==
  \/ ParenthesisLink(ls[ReplyTextLine(m, i) + 1])
  \/ ParenthesisLinkAtStart(Trim(ls[ReplyTextLine(m, i) + 2]))

\* Every quote marker replaced by a text marker.
QuotesAsText(m) == [k \in 1..Len(m) |-> IF m[k] = "m" THEN "t" ELSE m[k]]

\* The result keeps lines[0..a) and lines[b..n) for some a <= b.
PrefixPlusSuffix(ls, kept) ==
  \E a \in 0..Len(ls) : \E b \in a..Len(ls) :
    kept = Slice(ls, 0, a) \o Slice(ls, b, Len(ls))

\* C1: a message that is no leading forward and holds an inline reply (quote,
\* text, quote) whose text line is not link-shaped comes back from
\* processMarkedLines whole: it returns, with every line and nothing deleted.
C1_InlineReplyReturnsAllLines ==
  (/\ Processed
   /\ ~LeadingForwardShape(markers)
   /\ \E i \in InlineReplyStarts(markers) : ~LinkShaped(lines, markers, i))
  => /\ result.end = "return"
     /\ result.lastMessageLines = lines
     /\ result.wereLinesDeleted = FALSE

\* C2: when the message is no leading forward, holds no inline reply and its
\* markers match (se*)+((t|f)+e*)+, the lines from the start of the match to
\* the end are deleted: the lines before the match survive and the deleted
\* range is [match start, number of lines).
C2_TrailingQuoteCutFromMatchStart ==
  (/\ Processed
   /\ ~LeadingForwardShape(markers)
   /\ InlineReplyStarts(markers) = {}
   /\ TrailingQuoteStarts(markers) # {})
  => LET a == Leftmost(TrailingQuoteStarts(markers)) - 1
     IN /\ result.end = "return"
        /\ result.lastMessageLines = Slice(lines, 0, a)
        /\ result.wereLinesDeleted = TRUE
        /\ result.firstDeletedLine = Num(a)
        /\ result.lastDeletedLine = Num(Len(lines))

\* C3: when every inline-reply shape of the message has a link-shaped text
\* line, the inline-reply loop ends without aborting and without an error, and
\* the result is the one of the later heuristics.
C3_LinkBrokenQuoteRunGoesOn ==
  (/\ Processed
   /\ ~LeadingForwardShape(markers)
   /\ InlineReplyStarts(markers) # {}
   /\ \A i \in InlineReplyStarts(markers) : LinkShaped(lines, markers, i))
  => /\ result.end = "return"
     /\ result = AfterInlineReply(lines, markers)

\* C4: a message whose markers begin with text and empty markers followed by a
\* forward header comes back whole, whatever follows the header: the call
\* returns every line in order and reports no deletion.
C4_LeadingForwardKeepsAllLines ==
  (Processed /\ LeadingForwardShape(markers))
  => /\ result.end = "return"
     /\ result.lastMessageLines = lines
     /\ result.wereLinesDeleted = FALSE
     /\ result.firstDeletedLine = Num(0 - 1)
     /\ result.lastDeletedLine = Num(0 - 1)

\* C4 witness: a leading forward whose later lines hold a splitter followed by
\* text (the trailing-quote shape) or an inline reply, returned whole.
C4_Witness ==
  /\ Processed
  /\ LeadingForwardShape(markers)
  /\ TrailingQuoteStarts(markers) # {} \/ InlineReplyStarts(markers) # {}
  /\ Len(lines) >= 3
  /\ result.lastMessageLines = lines

\* C5: whenever processMarkedLines returns, the surviving lines are a prefix
\* of the original lines followed by a suffix of them: one contiguous range is
\* removed, and the survivors keep their order.
C5_SingleContiguousDeletion ==
  (Processed /\ result.end = "return")
  => PrefixPlusSuffix(lines, result.lastMessageLines)

\* C5 witness: a range inside the message was deleted, with lines surviving
\* before it and after it.
C5_Witness ==
  /\ Processed
  /\ result.end = "return"
  /\ result.wereLinesDeleted
  /\ IsNum(result.firstDeletedLine)
  /\ result.firstDeletedLine.num > 0
  /\ result.lastDeletedLine.num > result.firstDeletedLine.num
  /\ result.lastDeletedLine.num < Len(lines)
  /\ Len(result.lastMessageLines) = Len(lines) - (result.lastDeletedLine.num - result.firstDeletedLine.num)

\* The "On <date>, <person> wrote:" phrases of a body.
Phrases(body) ==
  {i \in 1..Len(body) :
     \/ body[i] = "O"
     \/ /\ body[i] = "A"
        /\ \E j \in {i + 1, i + 2} :
             j < Len(body) /\ body[j] = NL /\ body[j + 1] = "B"
                           /\ (j = i + 2 => body[i + 1] = CR)}

\* The line breaks of a body that are shorter than its delimiter: each "\n"
\* without "\r" of a body whose first line break is "\r\n".
ShortLineBreaks(body) ==
  IF body # <<>> /\ \E i \in 2..Len(body) :
       body[i] = NL /\ body[i - 1] = CR /\ \A j \in 1..(i - 1) : body[j] # NL
  THEN {i \in 1..Len(body) : body[i] = NL /\ (i = 1 \/ body[i - 1] # CR)}
  ELSE {}

C7_Idempotent ==
  (pc = "returned" /\ pass = 2) => messageBody = first

\* C8: markMessageLines returns one marker per line, and the lines that the
\* first splitter match of the message spans all carry the splitter marker.
C8_SplitterLinesAllMarked ==
  Marked =>
    /\ Len(markers) = Len(lines)
    /\ \A i \in 0..(Len(lines) - 1) :
         (/\ TakesSplitterBranch(lines, i)
          /\ \A h \in 0..(i - 1) : ~TakesSplitterBranch(lines, h))
         => LET k == Len(splitLines(isSplitter(SplitterWindow(lines, i)).str))
            IN \A j \in i..(i + k - 1) : markers[j + 1] = "s"

\* C9: without a splitter marker and without three quote runs in a row, the
\* result is the one the same lines give with every quote marker read as text.
C9_SpuriousQuoteMarkersAreText ==
  (/\ Processed
   /\ NoSplitterMarker(markers)
   /\ ~ThreeQuoteRuns(markers))
  => result = processMarkedLines(lines, QuotesAsText(markers))

\* C10: when the (se*)+((t|f)+e*)+ shape is followed by a further marker (a
\* quote line or a splitter), the trailing-quote cut is not taken: the result is
\* the one of the bounded-block heuristic, or no deletion.
C10_TrailingCutOnlyAtEnd ==
  (/\ Processed
   /\ ~LeadingForwardShape(markers)
   /\ InlineReplyStarts(markers) = {}
   /\ TrailingQuoteStarts(markers) # {}
   /\ LET i == Leftmost(TrailingQuoteStarts(markers))
          j == RunEnd(markers, i, {"s", "e"})
      IN RunEnd(markers, j, {"t", "f", "e"}) <= Len(markers))
  => result = AfterTrailingQuote(lines, markers)

=============================================================================
